---- MODULE Spec2Model ----
(***************************************************************************)
(* A model of astropop's astrometry.net wrapper                            *)
(* (astropop/astrometry/astrometrynet.py) and of the catalog base classes  *)
(* (astropop/catalogs/base_catalog.py).                                    *)
(*                                                                         *)
(* Python strings are sequences of one-character strings, so that len(),   *)
(* concatenation, os.path.basename and os.path.splitext are computed.      *)
(* Python values of mixed type (None, int, str) are tagged records with    *)
(* the same three fields.                                                  *)
(***************************************************************************)
EXTENDS Integers, Sequences, FiniteSets, TLC

VARIABLES
    \* ---- AstrometrySolver instance (constructor arguments)
    command,        \* self._command
    keep,           \* self._keep
    \* ---- one call of AstrometrySolver._run_solver
    pc,             \* position of the call
    filename,       \* argument filename
    params,         \* argument params: an ordered mapping, <<key, value>> pairs
    given_dir,      \* argument output_dir (None or a directory)
    output_dir,     \* local output_dir
    tmp_dir,        \* local tmp_dir
    solved_file,    \* local solved_file
    args,           \* local args
    solved_header,  \* local solved_header
    exc,            \* the exception in flight, caught by a handler
    proc,           \* what became of the external command
    result,         \* how the call ended
    \* ---- one call of AstrometrySolver.solve_field
    entry,          \* the method the caller called
    image_params,   \* argument image_params
    image_header,   \* the header fits.getheader(filename) gave
    guess,          \* what _guess_field_params made of header and image_params
    \* ---- the file system
    dirs,           \* the directories that exist
    files,          \* the files that exist: path -> contents
    \* ---- a catalog instance (_BaseCatalog, _BasePhotometryCatalog)
    last_query_info,    \* self._last_query_info
    last_query_table,   \* self._last_query_table
    available_filters,  \* self.available_filters
    \* ---- the last call on the catalog module
    cat_op,         \* the operation called
    cat_in,         \* its arguments
    cache_before,   \* the two cache fields as the call found them
    calls,          \* the query methods it invoked, with their arguments
    cat_result      \* how it ended

solverVars == <<entry, image_params, image_header, guess, command, keep, pc, filename, params, given_dir, output_dir,
                tmp_dir, solved_file, args, solved_header, exc, proc, result,
                dirs, files>>

catVars == <<last_query_info, last_query_table, available_filters, cat_op,
             cat_in, cache_before, calls, cat_result>>

vars == <<solverVars, catVars>>

-----------------------------------------------------------------------------
(* Bounds of the model.                                                    *)

\* the largest number of entries of an options mapping
MaxParams == 2
\* the largest number of bytes the solver writes into the .solved marker
MaxMarkerLen == 2
\* the largest number of positions given to match_indexes
MaxCand == 2
\* the largest number of catalog entries given to match_indexes
MaxCat == 2

-----------------------------------------------------------------------------
(* Python values.                                                          *)

NoneV == [t |-> "none", i |-> 0, s |-> <<>>]
IntV(n) == [t |-> "int", i |-> n, s |-> <<>>]
StrV(str) == [t |-> "str", i |-> 0, s |-> str]
BoolV(b) == [t |-> "bool", i |-> IF b THEN 1 ELSE 0, s |-> <<>>]
\* a float x is kept as the integer 3600 * x: a number of degrees is kept as
\* its number of arcseconds
FloatV(n) == [t |-> "float", i |-> n, s |-> <<>>]
\* astropy.coordinates.Angle: a value and its unit
AngleV(v, u) == [t |-> "angle", i |-> v, s |-> u]

DigitChar(d) == <<"0", "1", "2", "3", "4", "5", "6", "7", "8", "9">>[d + 1]

RECURSIVE Digits(_)
Digits(n) ==
    IF n < 0 THEN <<"-">> \o Digits(-n)
    ELSE IF n < 10 THEN <<DigitChar(n)>>
    ELSE Digits(n \div 10) \o <<DigitChar(n % 10)>>

Digit(c) ==
    CASE c = "0" -> 0 [] c = "1" -> 1 [] c = "2" -> 2 [] c = "3" -> 3
      [] c = "4" -> 4 [] c = "5" -> 5 [] c = "6" -> 6 [] c = "7" -> 7
      [] c = "8" -> 8 [] c = "9" -> 9 [] OTHER -> -1

RECURSIVE ParseNat(_, _)
\* the number written by the first n characters of s, -1 when it is none
ParseNat(s, n) ==
    IF n = 0 THEN -1
    ELSE IF Digit(s[n]) < 0 THEN -1
    ELSE IF n = 1 THEN Digit(s[1])
    ELSE IF ParseNat(s, n - 1) < 0 THEN -1
    ELSE 10 * ParseNat(s, n - 1) + Digit(s[n])

RECURSIVE FracDigits(_, _)
\* the decimal digits of r / 3600, at most n of them
FracDigits(r, n) ==
    IF r = 0 \/ n = 0 THEN <<>>
    ELSE <<DigitChar((10 * r) \div 3600)>> \o FracDigits((10 * r) % 3600, n - 1)

RECURSIVE FloatStr(_)
\* str(x) of a float: the integer part, a point, the decimals ("10.0", "0.55")
FloatStr(n) ==
    IF n < 0 THEN <<"-">> \o FloatStr(-n)
    ELSE Digits(n \div 3600) \o <<".">> \o
         (IF n % 3600 = 0 THEN <<"0">> ELSE FracDigits(n % 3600, 16))

\* str(v)
PyStr(v) ==
    CASE v.t = "str" -> v.s
      [] v.t = "int" -> Digits(v.i)
      [] v.t = "float" -> FloatStr(v.i)
      [] OTHER -> <<"N", "o", "n", "e">>

-----------------------------------------------------------------------------
(* os.path                                                                 *)

Sep == "/"

RECURSIVE LastIndexOf(_, _, _)
\* the largest index <= n of character c in s, 0 when there is none
LastIndexOf(s, c, n) ==
    IF n = 0 THEN 0
    ELSE IF s[n] = c THEN n
    ELSE LastIndexOf(s, c, n - 1)

\* os.path.basename(p)
Basename(p) == SubSeq(p, LastIndexOf(p, Sep, Len(p)) + 1, Len(p))

\* os.path.splitext(p): the extension starts at the last dot that follows the
\* last separator, unless only dots precede it in the file name
Splitext(p) ==
    LET sepIndex == LastIndexOf(p, Sep, Len(p))
        dotIndex == LastIndexOf(p, ".", Len(p))
    IN  IF dotIndex > sepIndex
           /\ \E k \in (sepIndex + 1)..(dotIndex - 1) : p[k] # "."
        THEN <<SubSeq(p, 1, dotIndex - 1), SubSeq(p, dotIndex, Len(p))>>
        ELSE <<p, <<>>>>

\* os.path.join(a, b)
Join(a, b) ==
    IF b # <<>> /\ b[1] = Sep THEN b
    ELSE IF a = <<>> \/ a[Len(a)] = Sep THEN a \o b
    ELSE a \o <<Sep>> \o b

\* whether path p lies in the tree of directory d
InTree(d, p) ==
    /\ Len(p) > Len(d)
    /\ SubSeq(p, 1, Len(d)) = d
    /\ (d[Len(d)] = Sep \/ p[Len(d) + 1] = Sep)

-----------------------------------------------------------------------------
(* Exceptions.                                                             *)

\* the base class of each exception class (Python 3: IOError is OSError)
ExcBase(cls) ==
    CASE cls = "AstrometryNetUnsolvedField" -> "CalledProcessError"
      [] cls = "CalledProcessError" -> "Exception"
      [] cls = "FileNotFoundError" -> "OSError"
      [] cls = "OSError" -> "Exception"
      [] cls = "TypeError" -> "Exception"
      [] cls = "UnboundLocalError" -> "NameError"
      [] cls = "NameError" -> "Exception"
      [] cls = "ValueError" -> "Exception"
      [] cls = "KeyError" -> "Exception"
      [] cls = "NotImplementedError" -> "Exception"
      [] OTHER -> "Exception"

RECURSIVE IsInstance(_, _)
IsInstance(cls, target) ==
    IF cls = target THEN TRUE
    ELSE IF cls = "Exception" THEN FALSE
    ELSE IsInstance(ExcBase(cls), target)

NoExc == [cls |-> "none", path |-> <<>>]

\* AstrometryNetUnsolvedField(path)
UnsolvedField(path) == [cls |-> "AstrometryNetUnsolvedField", path |-> path]

\* AstrometryNetUnsolvedField.__str__
UnsolvedStr(e) ==
    e.path \o <<":", " ", "c", "o", "u", "l", "d", " ", "n", "o", "t", " ",
                "s", "o", "l", "v", "e", " ", "f", "i", "e", "l", "d">>

OtherExc(cls) == [cls |-> cls, path |-> <<>>]

-----------------------------------------------------------------------------
(* Ordered mappings (dict): sequences of <<key, value>> pairs              *)

HasKey(m, k) == \E j \in 1..Len(m) : m[j][1] = k

\* m[k], for a key of m
Get(m, k) == m[CHOOSE j \in 1..Len(m) : m[j][1] = k][2]

\* m[k] = v
Put(m, k, v) ==
    IF HasKey(m, k)
    THEN [j \in 1..Len(m) |-> IF m[j][1] = k THEN <<k, v>> ELSE m[j]]
    ELSE Append(m, <<k, v>>)

RECURSIVE UpdateFrom(_, _, _)
\* m.update(other), from item j of other on
UpdateFrom(m, other, j) ==
    IF j > Len(other) THEN m
    ELSE UpdateFrom(Put(m, other[j][1], other[j][2]), other, j + 1)

Update(m, other) == UpdateFrom(m, other, 1)

-----------------------------------------------------------------------------
(* AstrometrySolver._guess_field_params                                    *)

KRa == <<"r", "a">>
KDec == <<"d", "e", "c">>
KRaKey == <<"r", "a", "_", "k", "e", "y">>
KDecKey == <<"d", "e", "c", "_", "k", "e", "y">>
KPltscl == <<"p", "l", "t", "s", "c", "l">>
KPltsclKey == <<"p", "l", "t", "s", "c", "l", "_", "k", "e", "y">>
KRadius == <<"r", "a", "d", "i", "u", "s">>
KScaleHigh == <<"s", "c", "a", "l", "e", "-", "h", "i", "g", "h">>
KScaleLow == <<"s", "c", "a", "l", "e", "-", "l", "o", "w">>
KScaleUnits == <<"s", "c", "a", "l", "e", "-", "u", "n", "i", "t", "s">>
ArcsecPerPix == <<"a", "r", "c", "s", "e", "c", "p", "e", "r", "p", "i", "x">>

\* float(v): the number, or the exception float() raises
PyFloat(v) ==
    CASE v.t = "float" -> [exc |-> "none", v |-> v.i]
      [] v.t = "int" -> [exc |-> "none", v |-> 3600 * v.i]
      [] v.t = "str" ->
            LET neg == v.s # <<>> /\ v.s[1] = "-"
                body == IF neg THEN Tail(v.s) ELSE v.s
                n == ParseNat(body, Len(body))
            IN  IF n < 0 THEN [exc |-> "ValueError", v |-> 0]
                ELSE [exc |-> "none", v |-> IF neg THEN -3600 * n ELSE 3600 * n]
      [] OTHER -> [exc |-> "TypeError", v |-> 0]

\* solve_decimal of astropop.math.opd_utils: the number a string writes
SolveDecimal(str) == PyFloat(StrV(str)).v

\* guess_coordinates of astropop.astrometry.coords_utils: the sky position of
\* a right ascension and a declination in decimal degrees
GuessCoordinates(ra, dec) == [ra |-> ra, dec |-> dec]

\* the outcome of a part of _guess_field_params: the exception leaving it,
\* the options it set, the warnings it logged, and whether pltscl is bound
Part(e, opts, warns, bound, value) ==
    [exc |-> e, options |-> opts, warns |-> warns, bound |-> bound, v |-> value]

\* lines 70-93: the field center
CenterPart(header, ip) ==
    IF HasKey(ip, KRa) /\ HasKey(ip, KDec)
    THEN LET fra == PyFloat(Get(ip, KRa))
             fdec == PyFloat(Get(ip, KDec))
             raBound == fra.exc = "none"
             decBound == raBound /\ fdec.exc = "none"
             raised == IF ~raBound THEN fra.exc ELSE fdec.exc
         IN  IF decBound
             THEN Part("none", <<<<KRa, FloatV(fra.v)>>, <<KDec, FloatV(fdec.v)>>>>,
                       <<>>, FALSE, 0)
             ELSE IF raised = "ValueError"
             \* the handler formats ra and dec, one of which was never bound
             THEN Part("UnboundLocalError", <<>>, <<>>, FALSE, 0)
             ELSE Part(raised, <<>>, <<>>, FALSE, 0)
    ELSE IF HasKey(ip, KRaKey) /\ HasKey(ip, KDecKey)
    THEN LET rk == Get(ip, KRaKey).s
             dk == Get(ip, KDecKey).s
         IN  IF ~HasKey(header, rk) \/ ~HasKey(header, dk)
             THEN Part("none", <<>>, <<"coordinates">>, FALSE, 0)
             ELSE LET coords == GuessCoordinates(
                                    SolveDecimal(PyStr(Get(header, rk))),
                                    SolveDecimal(PyStr(Get(header, dk))))
                  IN  Part("none", <<<<KRa, FloatV(coords.ra)>>,
                                     <<KDec, FloatV(coords.dec)>>>>,
                           <<>>, FALSE, 0)
    ELSE Part("none", <<>>, <<"no center">>, FALSE, 0)

\* lines 95-108: the plate scale
PltsclPart(header, ip) ==
    IF HasKey(ip, KPltscl)
    THEN LET f == PyFloat(Get(ip, KPltscl))
         IN  IF f.exc = "none" THEN Part("none", <<>>, <<>>, TRUE, f.v)
             ELSE IF f.exc = "ValueError"
             \* the handler formats pltscl, which was never bound
             THEN Part("UnboundLocalError", <<>>, <<>>, FALSE, 0)
             ELSE Part(f.exc, <<>>, <<>>, FALSE, 0)
    ELSE IF HasKey(ip, KPltsclKey)
    THEN LET pk == Get(ip, KPltsclKey).s
         IN  IF ~HasKey(header, pk)
             THEN Part("none", <<>>, <<"plate scale">>, FALSE, 0)
             ELSE Part("none", <<>>, <<>>, TRUE,
                       SolveDecimal(Get(header, pk).s))
    ELSE Part("none", <<>>, <<>>, FALSE, 0)

\* lines 109-114: an unbound pltscl is a NameError, which is caught
ScalePart(p) ==
    IF p.bound
    THEN Part("none", <<<<KScaleHigh, FloatV((11 * p.v) \div 10)>>,
                        <<KScaleLow, FloatV((9 * p.v) \div 10)>>,
                        <<KScaleUnits, StrV(ArcsecPerPix)>>>>,
              p.warns, TRUE, p.v)
    ELSE Part("none", <<>>, p.warns \o <<"no plate scale">>, FALSE, 0)

\* lines 116-120 without the test of line 116: the radius is attached
\* whether or not a center is known
RadiusPartWithoutCenter(options, ip) ==
    IF HasKey(ip, KRadius)
    THEN LET f == PyFloat(Get(ip, KRadius))
         IN  IF f.exc = "none"
             THEN Part("none", <<<<KRadius, FloatV(f.v)>>>>, <<>>, FALSE, 0)
             ELSE Part(f.exc, <<>>, <<>>, FALSE, 0)
    ELSE Part("none", <<<<KRadius, FloatV(3600)>>>>, <<>>, FALSE, 0)

\* lines 116-120: the search radius
RadiusPart(options, ip) ==
    IF HasKey(options, KRa)
    THEN IF HasKey(ip, KRadius)
         THEN LET f == PyFloat(Get(ip, KRadius))
              IN  IF f.exc = "none"
                  THEN Part("none", <<<<KRadius, FloatV(f.v)>>>>, <<>>, FALSE, 0)
                  ELSE Part(f.exc, <<>>, <<>>, FALSE, 0)
         ELSE Part("none", <<<<KRadius, FloatV(3600)>>>>, <<>>, FALSE, 0)
    ELSE Part("none", <<>>, <<>>, FALSE, 0)

Guessed(e, opts, warns) == [exc |-> e, options |-> opts, warns |-> warns]
NoGuess == Guessed("not called", <<>>, <<>>)

\* _guess_field_params(header, image_params)
GuessFieldParams(header, ip) ==
    LET c == CenterPart(header, ip)
    IN  IF c.exc # "none" THEN Guessed(c.exc, <<>>, <<>>)
        ELSE LET p == PltsclPart(header, ip)
             IN  IF p.exc # "none" THEN Guessed(p.exc, <<>>, c.warns)
                 ELSE LET sc == ScalePart(p)
                          o1 == Update(c.options, sc.options)
                          r == RadiusPart(o1, ip)
                      IN  IF r.exc # "none"
                          THEN Guessed(r.exc, <<>>, c.warns \o sc.warns)
                          ELSE Guessed("none", Update(o1, r.options),
                                       c.warns \o sc.warns)

-----------------------------------------------------------------------------
(* The inputs of the model.                                                *)

\* the programs that can be executed
Executables == {<<"s", "f">>}

\* astrometry_command: None (shutil.which found nothing), solve-field, or a
\* path that names no program
Commands == {NoneV, StrV(<<"s", "f">>), StrV(<<"n", "x">>)}

FileNames == {<<"a", ".", "f">>, <<"d", "/", "b">>}

UserDir == <<"o">>

GivenDirs == {NoneV, StrV(UserDir)}

Keys == {<<"z">>, <<"r", "a">>, <<>>}

Vals == {NoneV, IntV(12), StrV(<<>>)}

\* ordered mappings: no key twice
ParamMaps ==
    UNION {{m \in [1..n -> Keys \X Vals] :
                \A a, b \in 1..n : a # b => m[a][1] # m[b][1]} :
           n \in 0..MaxParams}

Bytes == {0, 1}

ByteSeqs == UNION {[1..n -> Bytes] : n \in 0..MaxMarkerLen}

Absent == <<-1>>

\* what the solver leaves as <root>.solved and <root>.wcs
MarkerOutcomes == {Absent} \cup ByteSeqs
WcsOutcomes == {Absent, <<7>>}

-----------------------------------------------------------------------------
(* The file system.                                                        *)

WriteFile(f, p, c) ==
    IF c = Absent THEN f
    ELSE [q \in DOMAIN f \cup {p} |-> IF q = p THEN c ELSE f[q]]

\* shutil.rmtree(d)
RmtreeDirs(ds, d) == {x \in ds : x # d /\ ~InTree(d, x)}
RmtreeFiles(f, d) == [q \in {x \in DOMAIN f : ~InTree(d, x)} |-> f[q]]

\* tempfile.mkdtemp(prefix, suffix): a directory that did not exist
Mkdtemp(prefix, suffix) ==
    <<"/", "t", "/">> \o prefix \o <<"q">> \o suffix

-----------------------------------------------------------------------------
(* AstrometrySolver._run_solver                                            *)

SolvedExt == <<".", "s", "o", "l", "v", "e", "d">>
WcsExt == <<".", "w", "c", "s">>
DirFlag == <<"-", "-", "d", "i", "r">>
TmpSuffix == <<"_", "a", "s", "t", "r", "o", "m", "e", "t", "r", "y",
               ".", "n", "e", "t">>

Root(fn) == Splitext(Basename(fn))[1]

DashesAlwaysTwo(i) == <<"-", "-">>

\* ndashes * '-'
Dashes(i) == IF Len(i) = 1 THEN <<"-">> ELSE <<"-", "-">>

\* "{0}{1}".format(ndashes * '-', i)
Flag(i) == Dashes(i) \o i

\* the tokens one item of params adds to args
ItemTokens(i, v) ==
    IF v # NoneV THEN <<StrV(Flag(i)), StrV(PyStr(v))>>
    ELSE <<StrV(Flag(i))>>

RECURSIVE ExtendArgs(_, _, _)
\* the loop over params.items(), from item k on
ExtendArgs(a, prm, k) ==
    IF k > Len(prm) THEN a
    ELSE ExtendArgs(a \o ItemTokens(prm[k][1], prm[k][2]), prm, k + 1)

BuildArgs(cmd, fn, od, prm) ==
    ExtendArgs(<<cmd, StrV(fn), StrV(DirFlag), StrV(od)>>, prm, 1)

\* which except clause of _run_solver takes exception e
Dispatch(e) ==
    IF IsInstance(e.cls, "CalledProcessError") THEN "except_cpe"
    ELSE IF IsInstance(e.cls, "OSError")
            \/ IsInstance(e.cls, "AstrometryNetUnsolvedField")
    THEN "except_io"
    ELSE "done"

Returned(h) == [kind |-> "return", exc |-> NoExc, header |-> h]
Raised(e) == [kind |-> "raise", exc |-> e, header |-> <<>>]
NoResult == [kind |-> "none", exc |-> NoExc, header |-> <<>>]

\* the fate of the external command: not run yet, not invoked (no process was
\* started), or its exit status, with what it left as marker and WCS file
Proc(st, m, w) == [st |-> st, marker |-> m, wcs |-> w]

\* an exception raised inside the try block
RaiseInTry(e) ==
    /\ pc' = Dispatch(e)
    /\ exc' = e
    /\ result' = IF Dispatch(e) = "done" THEN Raised(e) ELSE result

\* if not self._keep and tmp_dir: shutil.rmtree(output_dir)
Cleanup ==
    IF ~keep /\ tmp_dir
    THEN /\ dirs' = RmtreeDirs(dirs, output_dir)
         /\ files' = RmtreeFiles(files, output_dir)
    ELSE UNCHANGED <<dirs, files>>

\* the call and lines 192-199
RunSolverEntry(fn, prm, od) ==
    /\ pc = "idle"
    /\ filename' = fn
    /\ params' = prm
    /\ given_dir' = od
    /\ LET root == Root(fn)
           d == IF od = NoneV
                THEN Mkdtemp(root \o <<"_">>, TmpSuffix)
                ELSE od.s
       IN  /\ output_dir' = d
           /\ tmp_dir' = (od = NoneV)
           /\ dirs' = IF od = NoneV THEN dirs \cup {d} ELSE dirs
           /\ solved_file' = Join(d, root \o SolvedExt)
    /\ pc' = "build_args"
    /\ UNCHANGED <<command, keep, args, solved_header, exc, proc, result,
                   files>>

\* a caller calls _run_solver
RunSolver ==
    /\ \E fn \in FileNames, prm \in ParamMaps, od \in GivenDirs :
          RunSolverEntry(fn, prm, od)
    /\ entry' = "_run_solver"
    /\ UNCHANGED <<image_params, image_header, guess>>
    /\ UNCHANGED catVars

\* lines 201-207
BuildArgsStep ==
    /\ pc = "build_args"
    /\ args' = BuildArgs(command, filename, output_dir, params)
    /\ pc' = "check_call"
    /\ UNCHANGED catVars
    /\ UNCHANGED <<entry, image_params, image_header, guess, command, keep, filename,
                   params, given_dir, output_dir,
                   tmp_dir, solved_file, solved_header, exc, proc, result,
                   dirs, files>>

\* line 215, the command is None: subprocess rejects the argument list
CheckCallBadArgs ==
    /\ pc = "check_call"
    /\ args[1].t # "str"
    /\ proc' = Proc("not_invoked", Absent, Absent)
    /\ RaiseInTry(OtherExc("TypeError"))
    /\ UNCHANGED catVars
    /\ UNCHANGED <<entry, image_params, image_header, guess, command, keep, filename,
                   params, given_dir, output_dir,
                   tmp_dir, solved_file, args, solved_header, dirs, files>>

\* line 215, the command names no program
CheckCallNoProgram ==
    /\ pc = "check_call"
    /\ args[1].t = "str"
    /\ args[1].s \notin Executables
    /\ proc' = Proc("not_invoked", Absent, Absent)
    /\ RaiseInTry(OtherExc("FileNotFoundError"))
    /\ UNCHANGED catVars
    /\ UNCHANGED <<entry, image_params, image_header, guess, command, keep, filename,
                   params, given_dir, output_dir,
                   tmp_dir, solved_file, args, solved_header, dirs, files>>

\* line 215, solve-field runs: it writes what it writes into the --dir
\* directory, under the root of the file it was given, and exits
CheckCallRuns ==
    /\ pc = "check_call"
    /\ args[1].t = "str"
    /\ args[1].s \in Executables
    /\ \E code \in {0, 1}, m \in MarkerOutcomes, w \in WcsOutcomes :
        LET d == args[4].s
            root == Root(args[2].s)
        IN  /\ files' = WriteFile(WriteFile(files, Join(d, root \o SolvedExt), m),
                                  Join(d, root \o WcsExt), w)
            /\ IF code # 0
               THEN /\ proc' = Proc("nonzero", m, w)
                    /\ RaiseInTry(OtherExc("CalledProcessError"))
               ELSE /\ proc' = Proc("zero", m, w)
                    /\ pc' = "read_marker"
                    /\ UNCHANGED <<exc, result>>
    /\ UNCHANGED catVars
    /\ UNCHANGED <<entry, image_params, image_header, guess, command, keep, filename,
                   params, given_dir, output_dir,
                   tmp_dir, solved_file, args, solved_header, dirs>>

\* lines 218-220
ReadMarker ==
    /\ pc = "read_marker"
    /\ IF solved_file \notin DOMAIN files
       THEN RaiseInTry(OtherExc("FileNotFoundError"))
       ELSE IF Len(files[solved_file]) # 1
       THEN RaiseInTry(OtherExc("TypeError"))
       ELSE IF files[solved_file][1] # 1
       THEN RaiseInTry(UnsolvedField(filename))
       ELSE /\ pc' = "load_header"
            /\ UNCHANGED <<exc, result>>
    /\ UNCHANGED catVars
    /\ UNCHANGED <<entry, image_params, image_header, guess, command, keep, filename,
                   params, given_dir, output_dir,
                   tmp_dir, solved_file, args, solved_header, proc, dirs,
                   files>>

\* lines 221-223
LoadHeader ==
    /\ pc = "load_header"
    /\ LET solved_wcs_file == Join(output_dir, Root(filename) \o WcsExt)
       IN  IF solved_wcs_file \notin DOMAIN files
           THEN /\ RaiseInTry(OtherExc("FileNotFoundError"))
                /\ UNCHANGED solved_header
           ELSE /\ solved_header' = files[solved_wcs_file]
                /\ pc' = "cleanup"
                /\ UNCHANGED <<exc, result>>
    /\ UNCHANGED catVars
    /\ UNCHANGED <<entry, image_params, image_header, guess, command, keep, filename,
                   params, given_dir, output_dir,
                   tmp_dir, solved_file, args, proc, dirs, files>>

\* lines 226-229
CleanupReturn ==
    /\ pc = "cleanup"
    /\ Cleanup
    /\ result' = Returned(solved_header)
    /\ pc' = "done"
    /\ UNCHANGED catVars
    /\ UNCHANGED <<entry, image_params, image_header, guess, command, keep, filename,
                   params, given_dir, output_dir,
                   tmp_dir, solved_file, args, solved_header, exc, proc>>

\* lines 231-234
ExceptCalledProcessError ==
    /\ pc = "except_cpe"
    /\ Cleanup
    /\ result' = Raised(exc)
    /\ pc' = "done"
    /\ UNCHANGED catVars
    /\ UNCHANGED <<entry, image_params, image_header, guess, command, keep, filename,
                   params, given_dir, output_dir,
                   tmp_dir, solved_file, args, solved_header, exc, proc>>

\* lines 236-239
ExceptIOError ==
    /\ pc = "except_io"
    /\ Cleanup
    /\ result' = Raised(UnsolvedField(filename))
    /\ pc' = "done"
    /\ UNCHANGED catVars
    /\ UNCHANGED <<entry, image_params, image_header, guess, command, keep, filename,
                   params, given_dir, output_dir,
                   tmp_dir, solved_file, args, solved_header, exc, proc>>

\* AstrometrySolver.__init__, and the directory the caller may supply
InitSolver ==
    /\ command \in Commands
    /\ keep \in BOOLEAN
    /\ pc = "idle"
    /\ entry = "none"
    /\ image_params = <<>>
    /\ image_header = <<>>
    /\ guess = NoGuess
    /\ filename = <<>>
    /\ params = <<>>
    /\ given_dir = NoneV
    /\ output_dir = <<>>
    /\ tmp_dir = FALSE
    /\ solved_file = <<>>
    /\ args = <<>>
    /\ solved_header = <<>>
    /\ exc = NoExc
    /\ proc = Proc("not_run", Absent, Absent)
    /\ result = NoResult
    /\ dirs = {UserDir}
    /\ files = <<>>

SolverStep ==
    \/ BuildArgsStep
    \/ CheckCallBadArgs
    \/ CheckCallNoProgram
    \/ CheckCallRuns
    \/ ReadMarker
    \/ LoadHeader
    \/ CleanupReturn
    \/ ExceptCalledProcessError
    \/ ExceptIOError

-----------------------------------------------------------------------------
(* AstrometrySolver.solve_field                                            *)

\* the defaults of the constructor
Defaults ==
    <<<<<<"n", "o", "-", "p", "l", "o", "t">>, NoneV>>,
      <<<<"o", "v", "e", "r", "w", "r", "i", "t", "e">>, NoneV>>>>

KScampRef == <<"s", "c", "a", "m", "p", "-", "r", "e", "f">>
KScampConfig == <<"s", "c", "a", "m", "p", "-", "c", "o", "n", "f", "i", "g">>
KScamp == <<"s", "c", "a", "m", "p">>
KNewFits == <<"n", "e", "w", "-", "f", "i", "t", "s">>

\* lines 153-162
BaseOptions(solve_params, scamp_basename, output_file) ==
    LET o1 == Update(Defaults, solve_params)
        o2 == IF scamp_basename # NoneV
              THEN Put(Put(Put(o1,
                       KScampRef, StrV(scamp_basename.s \o <<".", "r", "e", "f">>)),
                       KScampConfig,
                       StrV(scamp_basename.s \o <<".", "s", "c", "a", "m", "p">>)),
                       KScamp, StrV(scamp_basename.s \o <<".", "c", "a", "t">>))
              ELSE o1
    IN  IF output_file # NoneV THEN Put(o2, KNewFits, output_file) ELSE o2

\* the header of the image: its keys and values, or none that can be read
Unreadable == <<<<<<"?">>, NoneV>>>>
HRa == <<"R", "A">>
HDec == <<"D", "E", "C">>
HScl == <<"S", "C", "L">>
HeaderOutcomes ==
    {Unreadable,
     <<<<HRa, StrV(<<"1", "0">>)>>>>,
     <<<<HRa, StrV(<<"1", "0">>)>>, <<HDec, StrV(<<"-", "2", "0">>)>>,
       <<HScl, StrV(<<"2">>)>>>>}

Missing == [t |-> "missing", i |-> 0, s |-> <<>>]

\* the mapping of the keys given a value, in the order of the keys
RECURSIVE MakeMap(_, _, _)
MakeMap(ks, vs, j) ==
    IF j > Len(ks) THEN <<>>
    ELSE (IF vs[j] = Missing THEN <<>> ELSE <<<<ks[j], vs[j]>>>>)
         \o MakeMap(ks, vs, j + 1)

ImageParamKeys == <<KRa, KDec, KRaKey, KDecKey, KPltscl, KPltsclKey, KRadius>>

ImageParamSets ==
    {MakeMap(ImageParamKeys, <<a, b, c, d, e, f, g>>, 1) :
        a \in {Missing, FloatV(36000), StrV(<<"x">>)},
        b \in {Missing, StrV(<<"-", "2", "0">>), StrV(<<"x">>)},
        c \in {Missing, StrV(HRa)},
        d \in {Missing, StrV(HDec)},
        e \in {Missing, FloatV(1800), StrV(<<"x">>)},
        f \in {Missing, StrV(HScl)},
        g \in {Missing, FloatV(7200), StrV(<<"3">>), StrV(<<"x">>)}}

SolveFieldExtras ==
    {[solve_params |-> <<>>, scamp_basename |-> NoneV, output_file |-> NoneV],
     [solve_params |-> <<<<<<"z">>, IntV(12)>>>>,
      scamp_basename |-> StrV(<<"s">>), output_file |-> StrV(<<"n">>)]}

\* solve_field, up to its call of _run_solver (lines 153-179); what
\* _run_solver returns or raises is what solve_field returns or raises
SolveFieldCall(fn, ip, x, hdr) ==
    /\ pc = "idle"
    /\ entry' = "solve_field"
    /\ image_params' = ip
    /\ image_header' = hdr
    /\ LET options == BaseOptions(x.solve_params, x.scamp_basename,
                                  x.output_file)
           g == IF hdr = Unreadable THEN NoGuess
                ELSE GuessFieldParams(hdr, ip)
       IN  /\ guess' = g
           /\ IF hdr = Unreadable \/ IsInstance(g.exc, "OSError")
              THEN RunSolverEntry(fn, options, NoneV)
              ELSE IF g.exc = "none"
              THEN RunSolverEntry(fn, Update(options, g.options), NoneV)
              ELSE /\ pc' = "done"
                   /\ filename' = fn
                   /\ result' = Raised(OtherExc(g.exc))
                   /\ UNCHANGED <<command, keep, params, given_dir,
                                  output_dir, tmp_dir, solved_file, args,
                                  solved_header, exc, proc, dirs, files>>

\* the image_params of the calls of solve_field: at most two entries
FieldImageParams == {ip \in ImageParamSets : Len(ip) <= 2}

SolveField ==
    /\ \E fn \in FileNames, ip \in FieldImageParams, x \in SolveFieldExtras,
          hdr \in HeaderOutcomes :
           SolveFieldCall(fn, ip, x, hdr)
    /\ UNCHANGED catVars

\* a caller calls _guess_field_params itself
GuessCall ==
    /\ pc = "idle"
    /\ \E ip \in ImageParamSets, hdr \in HeaderOutcomes \ {Unreadable} :
          /\ image_params' = ip
          /\ image_header' = hdr
          /\ guess' = GuessFieldParams(hdr, ip)
    /\ entry' = "_guess_field_params"
    /\ pc' = "done"
    /\ result' = IF guess'.exc = "none" THEN Returned(<<>>)
                 ELSE Raised(OtherExc(guess'.exc))
    /\ UNCHANGED <<command, keep, filename, params, given_dir, output_dir,
                   tmp_dir, solved_file, args, solved_header, exc, proc, dirs,
                   files>>
    /\ UNCHANGED catVars

-----------------------------------------------------------------------------
(* astropy.coordinates.Angle, as far as the catalog module uses it         *)

UnitOf(u) ==
    CASE u = <<"a", "r", "c", "s", "e", "c">> -> "arcsec"
      [] u = <<"a", "r", "c", "m", "i", "n">> -> "arcmin"
      [] u = <<"d", "e", "g">> -> "deg"
      [] OTHER -> "none"

\* Angle(str): "<number> <unit>"; anything else is a ValueError
ParseAngle(str) ==
    LET sp == LastIndexOf(str, " ", Len(str))
        n == ParseNat(str, sp - 1)
        u == UnitOf(SubSeq(str, sp + 1, Len(str)))
    IN  IF sp < 2 \/ n < 0 \/ u = "none" THEN NoneV ELSE AngleV(n, u)

\* Angle.degree, a float
AngleDegreeRaw(a) == a.i

AngleDegree(a) ==
    CASE a.s = "arcsec" -> a.i
      [] a.s = "arcmin" -> 60 * a.i
      [] a.s = "deg" -> 3600 * a.i

-----------------------------------------------------------------------------
(* The catalog base classes                                                *)

CatReturned(v) == [kind |-> "return", val |-> v, exc |-> "none"]
CatRaised(cls) == [kind |-> "raise", val |-> NoneV, exc |-> cls]

Centers == {"Sirius", "10 10"}

TwoArcsec == <<"2", " ", "a", "r", "c", "s", "e", "c">>
FiveArcsec == <<"5", " ", "a", "r", "c", "s", "e", "c">>

Radii == {NoneV, FloatV(0), FloatV(5400), IntV(2), StrV(TwoArcsec),
          StrV(<<"x">>), AngleV(30, "arcmin")}

FilterNames == {"B", "V"}
FilterLists == {<<>>, <<"V">>, <<"B", "V">>}

\* the fields are filled by the query methods of the concrete catalogs, which
\* subclass the base class: a base-class operation can find anything in them
CacheInfos == {"None", "info"}
CacheTables == {"None", "table"}

QueryCall(m, center, radius) == [m |-> m, center |-> center, radius |-> radius]

RouteByTruth(radius) ==
    IF radius.t = "none" \/ (radius.t \in {"float", "int"} /\ radius.i = 0)
    THEN "query_object"
    ELSE "query_region"

\* lines 60-63: which query __evaluate__ calls
Route(radius) ==
    IF radius = NoneV THEN "query_object" ELSE "query_region"

\* __evaluate__: the query it calls is not implemented in the base class
Evaluate(center, radius) ==
    /\ cat_op' = "__evaluate__"
    /\ cat_in' = [center |-> center, radius |-> radius]
    /\ cache_before' = <<last_query_info, last_query_table>>
    /\ calls' = <<QueryCall(Route(radius), center,
                            IF Route(radius) = "query_object" THEN NoneV
                            ELSE radius)>>
    /\ cat_result' = CatRaised("NotImplementedError")
    /\ UNCHANGED <<last_query_info, last_query_table, available_filters>>
    /\ UNCHANGED solverVars

\* _get_radius
GetRadiusOf(radius) ==
    LET r1 == IF radius.t = "str" THEN ParseAngle(radius.s) ELSE radius
    IN  IF radius.t = "str" /\ r1 = NoneV THEN CatRaised("ValueError")
        ELSE LET r2 == IF r1.t = "angle" THEN FloatV(AngleDegree(r1)) ELSE r1
             IN  CASE r2.t = "float" -> CatReturned(r2)
                   [] r2.t = "int" -> CatReturned(FloatV(3600 * r2.i))
                   [] OTHER -> CatRaised("TypeError")

GetRadius(radius) ==
    /\ cat_op' = "_get_radius"
    /\ cat_in' = [radius |-> radius]
    /\ cache_before' = <<last_query_info, last_query_table>>
    /\ calls' = <<>>
    /\ cat_result' = GetRadiusOf(radius)
    /\ UNCHANGED <<last_query_info, last_query_table, available_filters>>
    /\ UNCHANGED solverVars

\* the operations that raise NotImplementedError: _get_center, query_object,
\* query_region, query_ra_dec, query_flux, query_id, match_objects
Unsupported == {"_get_center", "query_object", "query_region", "query_ra_dec",
                "query_flux", "query_id", "match_objects"}

NotImplemented(op) ==
    /\ cat_op' = op
    /\ cat_in' = [center |-> "Sirius"]
    /\ cache_before' = <<last_query_info, last_query_table>>
    /\ calls' = <<>>
    /\ cat_result' = CatRaised("NotImplementedError")
    /\ UNCHANGED <<last_query_info, last_query_table, available_filters>>
    /\ UNCHANGED solverVars

FlushForgetsTable ==
    /\ cat_op' = "flush"
    /\ cat_in' = [center |-> "Sirius"]
    /\ cache_before' = <<last_query_info, last_query_table>>
    /\ calls' = <<>>
    /\ cat_result' = CatReturned(NoneV)
    /\ last_query_info' = "None"
    /\ UNCHANGED <<last_query_table, available_filters>>
    /\ UNCHANGED solverVars

\* flush
Flush ==
    /\ cat_op' = "flush"
    /\ cat_in' = [center |-> "Sirius"]
    /\ cache_before' = <<last_query_info, last_query_table>>
    /\ calls' = <<>>
    /\ cat_result' = CatReturned(NoneV)
    /\ last_query_info' = "None"
    /\ last_query_table' = "None"
    /\ UNCHANGED available_filters
    /\ UNCHANGED solverVars

\* filter in self.available_filters
InFilters(name) == \E k \in 1..Len(available_filters) : available_filters[k] = name

\* check_filter
CheckFilterOf(name, raise_error) ==
    IF ~raise_error THEN CatReturned(BoolV(InFilters(name)))
    ELSE IF ~InFilters(name) THEN CatRaised("ValueError")
    ELSE CatReturned(NoneV)

CheckFilter(name, raise_error) ==
    /\ cat_op' = "check_filter"
    /\ cat_in' = [filter |-> name, raise_error |-> raise_error]
    /\ cache_before' = <<last_query_info, last_query_table>>
    /\ calls' = <<>>
    /\ cat_result' = CheckFilterOf(name, raise_error)
    /\ UNCHANGED <<last_query_info, last_query_table, available_filters>>
    /\ UNCHANGED solverVars

IdleCatalog ==
    /\ last_query_info = "None"
    /\ last_query_table = "None"
    /\ available_filters = <<>>
    /\ cat_op = "none"
    /\ cat_in = [center |-> "Sirius"]
    /\ cache_before = <<last_query_info, last_query_table>>
    /\ calls = <<>>
    /\ cat_result = CatReturned(NoneV)

InitCatalog ==
    /\ last_query_info \in CacheInfos
    /\ last_query_table \in CacheTables
    /\ available_filters \in FilterLists
    /\ cat_op = "none"
    /\ cat_in = [center |-> "Sirius"]
    /\ cache_before = <<last_query_info, last_query_table>>
    /\ calls = <<>>
    /\ cat_result = CatReturned(NoneV)

-----------------------------------------------------------------------------
(* match_indexes                                                           *)

\* sky positions <<ra, dec>>, in arcseconds: (10, 10) degrees, the points 3
\* arcseconds north and south of it, and (50, 50) degrees
SkyPoints == {<<36000, 36000>>, <<36000, 36003>>, <<36000, 35997>>,
              <<180000, 180000>>}

Abs(x) == IF x < 0 THEN -x ELSE x

\* the great-circle distance of two positions, in arcseconds, as
\* match_coordinates_sky measures it: along the meridian for positions of the
\* same right ascension, and computed beforehand for the others
Separation(a, b) ==
    IF a[1] = b[1] THEN Abs(a[2] - b[2])
    ELSE LET near == IF a[1] = 36000 THEN a ELSE b
         IN  CASE near[2] = 36000 -> 186602
               [] near[2] = 36003 -> 186599
               [] near[2] = 35997 -> 186604

CandLists == UNION {[1..n -> SkyPoints] : n \in 1..MaxCand}
CatLists == UNION {[1..n -> SkyPoints] : n \in 1..MaxCat}

\* limit_angle: a readable string or an Angle
Limits == {StrV(FiveArcsec), AngleV(0, "arcsec"), AngleV(60, "deg")}

\* Angle(limit_angle)
AngleOf(limit) == IF limit.t = "str" THEN ParseAngle(limit.s) ELSE limit

\* match_coordinates_sky: for each position the index (from 0) of a nearest
\* catalog entry, whichever it is when several are as near
NearestIndexes(cand, cat) ==
    {ind \in [1..Len(cand) -> 0..(Len(cat) - 1)] :
        \A k \in 1..Len(cand) : \A j \in 1..Len(cat) :
            Separation(cand[k], cat[ind[k] + 1]) <= Separation(cand[k], cat[j])}

StrictlyWithin(d, lim) == d < AngleDegree(lim)

\* dist[k] <= lim
Within(d, lim) == d <= AngleDegree(lim)

\* lines 22-30
FillIndex(cand, cat, ind, lim) ==
    [k \in 1..Len(cand) |->
        IF Within(Separation(cand[k], cat[ind[k] + 1]), lim) THEN ind[k]
        ELSE -1]

MatchIndexes(cand, cat, limit) ==
    /\ cat_op' = "match_indexes"
    /\ cat_in' = [cand |-> cand, cat |-> cat, limit |-> limit]
    /\ cache_before' = <<last_query_info, last_query_table>>
    /\ calls' = <<>>
    /\ \E ind \in NearestIndexes(cand, cat) :
          cat_result' = CatReturned(FillIndex(cand, cat, ind, AngleOf(limit)))
    /\ UNCHANGED <<last_query_info, last_query_table, available_filters>>
    /\ UNCHANGED solverVars

CatalogStep ==
    \/ \E center \in Centers, radius \in Radii : Evaluate(center, radius)
    \/ \E radius \in Radii : GetRadius(radius)
    \/ \E op \in Unsupported : NotImplemented(op)
    \/ Flush
    \/ \E name \in FilterNames, raise_error \in BOOLEAN :
          CheckFilter(name, raise_error)

\* match_indexes is a function of its arguments alone: they are drawn first
InitMatch ==
    /\ last_query_info = "None"
    /\ last_query_table = "None"
    /\ available_filters = <<>>
    /\ cat_op = "none"
    /\ cat_in \in [cand : CandLists, cat : CatLists, limit : Limits]
    /\ cache_before = <<last_query_info, last_query_table>>
    /\ calls = <<>>
    /\ cat_result = CatReturned(NoneV)

MatchStep ==
    /\ cat_op = "none"
    /\ MatchIndexes(cat_in.cand, cat_in.cat, cat_in.limit)

IdleSolver ==
    /\ InitSolver
    /\ command = NoneV
    /\ keep = FALSE

Init == InitSolver /\ IdleCatalog

\* _run_solver, called by itself
Next == RunSolver \/ SolverStep

Spec == Init /\ [][Next]_vars

\* solve_field and the call of _run_solver it makes
NextField == SolveField \/ SolverStep

SpecField == Init /\ [][NextField]_vars

\* _guess_field_params, called by itself
SpecGuess == Init /\ [][GuessCall]_vars

\* the catalog module alone
InitCat == IdleSolver /\ InitCatalog

SpecCat == InitCat /\ [][CatalogStep]_vars

\* match_indexes alone
InitMatchIndexes == IdleSolver /\ InitMatch

SpecMatch == InitMatchIndexes /\ [][MatchStep]_vars

-----------------------------------------------------------------------------
(* Properties of AstrometrySolver._run_solver                              *)

Range(q) == {q[k] : k \in DOMAIN q}

\* C1: when _run_solver made its own temporary directory and keep_files is
\* false, the directory no longer exists when the call has ended, however it
\* ended; with keep_files true the temporary directory is never deleted.
C1_TmpDirGoneAtExit ==
    /\ (pc = "done" /\ tmp_dir /\ ~keep) => output_dir \notin dirs
    /\ (pc # "idle" /\ tmp_dir /\ keep) => output_dir \in dirs

\* C2: _run_solver returns the header only when the command exited zero and
\* the marker exists and contains the byte 1; when the command exited zero
\* and the marker is absent or does not contain the byte 1, the call fails
\* with AstrometryNetUnsolvedField carrying the original filename.
C2_SolvedOnlyWithMarker ==
    pc = "done" =>
        /\ result.kind = "return" =>
              /\ proc.st = "zero"
              /\ proc.marker # Absent
              /\ 1 \in Range(proc.marker)
        /\ (proc.st = "zero"
            /\ (proc.marker = Absent \/ 1 \notin Range(proc.marker))) =>
              /\ result = Raised(UnsolvedField(filename))
              /\ SubSeq(UnsolvedStr(result.exc), 1, Len(filename)) = filename

\* C3: when the command exits nonzero or cannot be invoked, the call ends
\* with that process error itself, not with the unsolved-field error, and the
\* temporary directory has been cleaned up by then.
C3_ProcessErrorPropagates ==
    (pc = "done" /\ proc.st \in {"nonzero", "not_invoked"}) =>
        /\ result.kind = "raise"
        /\ ~IsInstance(result.exc.cls, "AstrometryNetUnsolvedField")
        /\ (tmp_dir /\ ~keep) => output_dir \notin dirs

\* the string form of the values of the model, written out
StrForm(v) ==
    CASE v = IntV(12) -> <<"1", "2">>
      [] v = StrV(<<>>) -> <<>>

RECURSIVE TokenCount(_, _)
\* the number of tokens the first j items of mapping prm should give
TokenCount(prm, j) ==
    IF j = 0 THEN 0
    ELSE TokenCount(prm, j - 1) + (IF prm[j][2] = NoneV THEN 1 ELSE 2)

\* C4: after [command, filename, '--dir', output_dir] the argument list holds
\* one flag per key, in mapping order, with one dash iff the key is one
\* character long and two otherwise, followed by the string form of the
\* value iff the value is not None.
C4_OneFlagPerKey ==
    pc \notin {"idle", "build_args"} =>
        /\ Len(args) = 4 + TokenCount(params, Len(params))
        /\ SubSeq(args, 1, 4) =
              <<command, StrV(filename), StrV(DirFlag), StrV(output_dir)>>
        /\ \A j \in 1..Len(params) :
              LET p == 4 + TokenCount(params, j - 1) + 1
                  key == params[j][1]
                  v == params[j][2]
                  tok == args[p].s
                  nd == Len(tok) - Len(key)
              IN  /\ args[p].t = "str"
                  /\ nd \in {1, 2}
                  /\ (nd = 1) <=> (Len(key) = 1)
                  /\ \A k \in 1..nd : tok[k] = "-"
                  /\ SubSeq(tok, nd + 1, Len(tok)) = key
                  /\ v # NoneV => args[p + 1] = StrV(StrForm(v))

\* a two-item mapping is turned into arguments: a one-character key without
\* value, then a longer key with a value
C4_Witness ==
    /\ pc = "check_call"
    /\ Len(params) = 2
    /\ Len(params[1][1]) = 1
    /\ params[1][2] = NoneV
    /\ Len(params[2][1]) = 2
    /\ params[2][2] = IntV(12)
    /\ Len(args) = 7

-----------------------------------------------------------------------------
(* Properties of the catalog module                                        *)

\* C5: a call of __evaluate__ invokes exactly one of query_object and
\* query_region, once: query_object when radius is None, query_region for any
\* other radius, 0.0, an angle string and an Angle included.
C5_OneQueryPerCall ==
    cat_op = "__evaluate__" =>
        /\ Len(calls) = 1
        /\ calls[1].m \in {"query_object", "query_region"}
        /\ calls[1].m = "query_object" <=> cat_in.radius = NoneV
        /\ calls[1].center = cat_in.center

\* __evaluate__ was called with the radius 0.0 and chose the region query
C5_Witness ==
    /\ cat_op = "__evaluate__"
    /\ cat_in.radius = FloatV(0)
    /\ calls = <<QueryCall("query_region", cat_in.center, FloatV(0))>>

\* the degrees (kept as arcseconds) of the radii of the model, written out;
\* -1 for a radius that is no angle
DegreesOf(radius) ==
    CASE radius = FloatV(0) -> 0
      [] radius = FloatV(5400) -> 5400
      [] radius = IntV(2) -> 7200
      [] radius = StrV(TwoArcsec) -> 2
      [] radius = AngleV(30, "arcmin") -> 1800
      [] OTHER -> -1

\* C6, as claimed: __evaluate__ with a radius hands query_region the radius
\* normalized to decimal degrees, and with a radius that cannot be normalized
\* it fails with ValueError without reaching query_region.
C6_EvaluateNormalizesRadius ==
    (cat_op = "__evaluate__" /\ cat_in.radius # NoneV) =>
        IF DegreesOf(cat_in.radius) >= 0
        THEN calls = <<QueryCall("query_region", cat_in.center,
                                 FloatV(DegreesOf(cat_in.radius)))>>
        ELSE calls = <<>> /\ cat_result = CatRaised("ValueError")

\* C6, amended: __evaluate__ hands query_region the radius as it was given;
\* it is _get_radius that normalizes a radius to decimal degrees (a number
\* as it is, an angle string or Angle as its degrees) and fails with
\* ValueError for a string that is no angle.
C6_GetRadiusNormalizes ==
    /\ (cat_op = "__evaluate__" /\ cat_in.radius # NoneV) =>
          calls = <<QueryCall("query_region", cat_in.center, cat_in.radius)>>
    /\ (cat_op = "_get_radius" /\ cat_in.radius # NoneV) =>
          IF DegreesOf(cat_in.radius) >= 0
          THEN cat_result = CatReturned(FloatV(DegreesOf(cat_in.radius)))
          ELSE cat_in.radius.t = "str" /\ cat_result = CatRaised("ValueError")

\* __evaluate__ was called with the radius '2 arcsec' and has handed that
\* string to query_region
C6_Witness ==
    /\ cat_op = "__evaluate__"
    /\ cat_in.radius = StrV(TwoArcsec)
    /\ calls = <<QueryCall("query_region", cat_in.center, StrV(TwoArcsec))>>

\* C8: flush leaves both cache fields None whatever they held, and no other
\* operation of the base classes changes either of them.
C8_OnlyFlushClears ==
    [][/\ cat_op' = "flush" =>
             (last_query_info' = "None" /\ last_query_table' = "None")
       /\ cat_op' # "flush" =>
             UNCHANGED <<last_query_info, last_query_table>>]_vars

\* flush has run on a catalog whose cache fields were both filled before
C8_Witness ==
    /\ cat_op = "flush"
    /\ cache_before = <<"info", "table">>
    /\ last_query_info = "None"
    /\ last_query_table = "None"
    /\ cat_result = CatReturned(NoneV)

\* C9: check_filter either returns a boolean, true exactly when the name is
\* in available_filters, or fails with ValueError, and it fails only when
\* raise_error is true and the name is not in available_filters.
C9_BooleanOrError ==
    cat_op = "check_filter" =>
        \/ cat_result = CatReturned(BoolV(\E k \in 1..Len(available_filters) :
                                            available_filters[k] = cat_in.filter))
        \/ /\ cat_result = CatRaised("ValueError")
           /\ cat_in.raise_error
           /\ \A k \in 1..Len(available_filters) :
                  available_filters[k] # cat_in.filter

-----------------------------------------------------------------------------
(* Properties of AstrometrySolver.solve_field                              *)

\* whether float() takes the value of key k of image_params
Converts(ip, k) == PyFloat(Get(ip, k)).exc = "none"

\* C7: deriving the field guess never aborts solve_field: when an explicit
\* ra, dec or pltscl is no number, or a named header key is missing,
\* _guess_field_params raises nothing, logs a warning and returns options
\* without that hint, and the solver is still run.
C7_GuessNeverAborts ==
    (entry = "solve_field" /\ image_header # Unreadable) =>
        /\ guess.exc = "none"
        /\ pc = "done" => proc.st # "not_run"
        /\ (HasKey(image_params, KRa) /\ HasKey(image_params, KDec)
            /\ ~(Converts(image_params, KRa) /\ Converts(image_params, KDec)))
              => /\ ~HasKey(guess.options, KRa)
                 /\ ~HasKey(guess.options, KDec)
                 /\ guess.warns # <<>>
        /\ (HasKey(image_params, KPltscl) /\ ~Converts(image_params, KPltscl))
              => /\ ~HasKey(guess.options, KScaleLow)
                 /\ ~HasKey(guess.options, KScaleHigh)
                 /\ ~HasKey(guess.options, KScaleUnits)
                 /\ guess.warns # <<>>

-----------------------------------------------------------------------------
(* Properties of AstrometrySolver._guess_field_params                      *)

\* the number, in 1/3600 of a degree, that each radius a caller gives stands
\* for: 2.0 is two degrees and the text "3" is three degrees
RadiusGiven ==
    <<<<FloatV(7200), FloatV(7200)>>, <<StrV(<<"3">>), FloatV(10800)>>>>

\* _guess_field_params has returned options to its caller
OptionsReturned == entry = "_guess_field_params" /\ guess.exc = "none"

\* both coordinates of the field center are in the returned options
CenterKnown == HasKey(guess.options, KRa) /\ HasKey(guess.options, KDec)

\* C11: the options _guess_field_params returns hold a 'radius' exactly when
\* they hold both 'ra' and 'dec'; the radius is then the caller's
\* image_params 'radius' as a number, or 1.0 degree when the caller gave
\* none; a radius the caller gave is not passed on without a center.
C11_RadiusIffCenter ==
    OptionsReturned =>
        /\ HasKey(guess.options, KRadius) <=> CenterKnown
        /\ HasKey(guess.options, KRa) <=> HasKey(guess.options, KDec)
        /\ (CenterKnown /\ HasKey(image_params, KRadius)) =>
              /\ HasKey(RadiusGiven, Get(image_params, KRadius))
              /\ Get(guess.options, KRadius)
                    = Get(RadiusGiven, Get(image_params, KRadius))
        /\ (CenterKnown /\ ~HasKey(image_params, KRadius)) =>
              Get(guess.options, KRadius) = FloatV(3600)

\* a center is known and the caller's radius "3" is returned as 3.0 degrees
C11_Witness ==
    /\ OptionsReturned
    /\ CenterKnown
    /\ HasKey(image_params, KRadius)
    /\ Get(image_params, KRadius) = StrV(<<"3">>)
    /\ Get(guess.options, KRadius) = FloatV(10800)

====
